---- MODULE Spec2Model ----
(***************************************************************************)
(* Seat ledger of CinemaWeb (src/app/db.py): the tables seat_holds and     *)
(* seat_reservas and the operations purge_expired_holds,                    *)
(* get_occupied_seats, hold_seats, release_hold and confirm_seats.          *)
(*                                                                         *)
(* The connection is opened with isolation_level=None (get_conn), so the   *)
(* sqlite3 module never opens a transaction: every conn.execute() commits  *)
(* on its own and the commit/rollback of "with conn:" has nothing to act   *)
(* on.  Each SQL statement of an operation is therefore one atomic step of *)
(* the model, and a call is a sequence of such steps run by a request      *)
(* (a process).  An exception leaves the rows already written in place.    *)
(*                                                                         *)
(* The schema is the one create_schema() builds: seat_holds and            *)
(* seat_reservas with the columns token and seat and with the unique       *)
(* indexes on (movie_id, fecha, hora, sala, seat).  The unique index makes *)
(* two rows with the same key impossible, so a table is a set of rows; the *)
(* columns id and reserved_at, which no operation reads, are left out.     *)
(*                                                                         *)
(* Also modelled: the table password_reset_tokens with its four functions  *)
(* (create, validate, use, cleanup) and the value execute() returns; and   *)
(* the requests POST /reserva-asientos, POST /pago and GET                 *)
(* /pago/mp/success with the session cookie they carry and the table       *)
(* transacciones.                                                          *)
(***************************************************************************)
EXTENDS Naturals, Integers, Sequences, FiniteSets, TLC

\* ---------------------------------------------------------------- bounds
MaxTime == 2            \* the clock runs from 0 to MaxTime
MaxTtl == 1             \* ttl_sec is drawn from 1..MaxTtl
MaxSeatsPerCall == 2    \* length of the seat list handed to hold_seats
MaxCalls == 3           \* requests in a run with interleaved statements
MaxTrx == 2             \* rows INSERTed into transacciones in a run
ResetTtl == 1           \* lifetime of a reset token (3600 s in the code) in ticks
MaxRequests == 4        \* web requests sent in a run

\* ---------------------------------------------------------------- values
Procs == {"p1", "p2"}                 \* concurrent requests (one connection each)
Tokens == {"tA", "tB"}                \* hold tokens of the sessions
Movies == {"m1"}
Fechas == {"d1"}
Horas == {"h1"}
Salas == {"s1", "s2"}
Payments == {[usuario_email |-> "e1", trx_id |-> 1],
             [usuario_email |-> "e2", trx_id |-> 2]}

Users == {1, 2}                       \* usuarios.id
NoUser == 0                           \* None, where a user_id is expected
\* what secrets.token_urlsafe(32) can return in a run
ResetTokens == {"r1", "r2", "r3"}
\* a string presented as a token that no call has returned
UnknownToken == "r0"
MaxPerOrder == 6                      \* SEAT_MAX_PER_ORDER

\* A seat code is a string, modelled as a sequence of characters.
Blank == " "
SeatA1 == <<"A", "1">>
SeatA2 == <<"A", "2">>
Seats == {SeatA1, SeatA2}
\* What a caller may hand in for one seat: any case, padded, blank or empty.
RawSeats == {<<"A", "1">>, <<"a", "1", " ">>, <<" ", "A", "2">>, <<" ">>, <<>>}

NoShow == [movie_id |-> "", fecha |-> "", hora |-> "", sala |-> ""]
Shows == [movie_id : Movies, fecha : Fechas, hora : Horas, sala : Salas]
Show1 == [movie_id |-> "m1", fecha |-> "d1", hora |-> "h1", sala |-> "s1"]
Show2 == [movie_id |-> "m1", fecha |-> "d1", hora |-> "h1", sala |-> "s2"]

\* ------------------------------------------------- str.strip / str.upper
Upper(c) == IF c = "a" THEN "A" ELSE c

UpperStr(s) == [k \in 1..Len(s) |-> Upper(s[k])]

RECURSIVE LStrip(_)
LStrip(s) == IF s # <<>> /\ Head(s) = Blank THEN LStrip(Tail(s)) ELSE s

RECURSIVE RStrip(_)
RStrip(s) ==
    IF s # <<>> /\ s[Len(s)] = Blank THEN RStrip(SubSeq(s, 1, Len(s) - 1)) ELSE s

Strip(s) == RStrip(LStrip(s))

\* clean_seats = [s.strip().upper() for s in seats if s and str(s).strip()]
RECURSIVE CleanSeats(_)
CleanSeats(seats) ==
    IF seats = <<>> THEN <<>>
    ELSE IF Head(seats) # <<>> /\ Strip(Head(seats)) # <<>>
         THEN <<UpperStr(Strip(Head(seats)))>> \o CleanSeats(Tail(seats))
         ELSE CleanSeats(Tail(seats))

SeqRange(s) == {s[k] : k \in 1..Len(s)}

RECURSIVE SeqsUpTo(_, _)
SeqsUpTo(S, n) ==
    IF n = 0 THEN {<<>>}
    ELSE SeqsUpTo(S, n - 1) \cup
         {Append(q, x) : q \in {r \in SeqsUpTo(S, n - 1) : Len(r) = n - 1}, x \in S}

\* ---------------------------------------------------------------- state
VARIABLES
    seat_holds,      \* table seat_holds: set of rows
    seat_reservas,   \* table seat_reservas: set of rows
    clock,           \* int(time.time())
    pc,              \* pc[p]: the statement request p executes next
    call,            \* call[p]: arguments and locals of the running call
    snap,            \* ledger and clock when the running calls began, and
                     \* the hold rows purge_expired_holds has deleted since
    ncalls,          \* requests started so far (counted in Spec only)
    password_reset_tokens,  \* table password_reset_tokens: set of rows
    issued,          \* the tokens secrets.token_urlsafe has returned so far
    lastrowid,       \* lastrowid[p]: sqlite3_last_insert_rowid of the
                     \* connection of request p (0 on a new connection)
    session,         \* session[b]: the session cookie browser b holds
    transacciones    \* table transacciones: row k has id k

resetVars == <<password_reset_tokens, issued, lastrowid>>
webVars == <<session, transacciones>>

vars == <<seat_holds, seat_reservas, clock, pc, call, snap, ncalls,
          password_reset_tokens, issued, lastrowid, session, transacciones>>

NoResult == [kind |-> "none", seats |-> {}, count |-> 0,
             token |-> "", user_id |-> NoUser, ok |-> FALSE]

\* the keys of the Flask session the handlers read and write
NoCookie == [hold_token |-> "", seats |-> <<>>, trx_id_mp |-> 0,
             checkout_email |-> ""]

NoCall == [op |-> "none", token |-> "", show |-> NoShow, clean_seats |-> <<>>,
           now |-> 0, ttl_sec |-> 0, i |-> 0, seats |-> {}, todo |-> {},
           pay |-> [usuario_email |-> "", trx_id |-> 0],
           exclude_token |-> "", taken |-> {}, result |-> NoResult,
           user_id |-> NoUser, expires_at |-> 0,
           browser |-> "", cookie |-> NoCookie, selected |-> <<>>,
           approved |-> FALSE]

NoSnap == [seat_holds |-> {}, seat_reservas |-> {}, clock |-> 0, n |-> 0,
           swept |-> {}, password_reset_tokens |-> {}]

\* the WHERE clause without its last term
OfShowAnySala(r, show) ==
    /\ r.movie_id = show.movie_id
    /\ r.fecha = show.fecha
    /\ r.hora = show.hora

\* WHERE movie_id=? AND fecha=? AND hora=? AND sala=?
OfShow(r, show) ==
    /\ r.movie_id = show.movie_id
    /\ r.fecha = show.fecha
    /\ r.hora = show.hora
    /\ r.sala = show.sala

HoldRow(token, show, seat, exp) ==
    [token |-> token, movie_id |-> show.movie_id, fecha |-> show.fecha,
     hora |-> show.hora, sala |-> show.sala, seat |-> seat, expires_at |-> exp]

ReservaRow(pay, show, seat) ==
    [usuario_email |-> pay.usuario_email, trx_id |-> pay.trx_id,
     movie_id |-> show.movie_id, fecha |-> show.fecha, hora |-> show.hora,
     sala |-> show.sala, seat |-> seat]

\* the unique indexes were never created: no INSERT is refused
UniqueViolationOff(table, show, seat) == FALSE

\* ux_seat_holds_show_seat / ux_seat_reservas_show_seat:
\* UNIQUE (movie_id, fecha, hora, sala, seat)
UniqueViolation(table, show, seat) ==
    \E r \in table : OfShow(r, show) /\ r.seat = seat

\* DELETE FROM seat_holds WHERE token=?
TokenHoldsAnyShow(holds, token, show) ==
    {h \in holds : h.token = token}

\* DELETE FROM seat_holds WHERE token=? AND movie_id=? AND fecha=? AND hora=?
\* AND sala=?: the rows it deletes
TokenHolds(holds, token, show) ==
    {h \in holds : h.token = token /\ OfShow(h, show)}

\* the check against the reservations finds nothing
ConflictedSeatsNone(reservas, show, clean_seats) == {}

\* SELECT seat FROM seat_reservas WHERE <show> AND seat IN (clean_seats)
ConflictedSeats(reservas, show, clean_seats) ==
    {r.seat : r \in {x \in reservas : /\ OfShow(x, show)
                                      /\ x.seat \in SeqRange(clean_seats)}}

\* the SELECT without "AND expires_at >= ?"
LiveSeatsAll(holds, token, show, now) ==
    {h.seat : h \in {x \in holds : x.token = token /\ OfShow(x, show)}}

\* SELECT seat FROM seat_holds WHERE token=? AND <show> AND expires_at >= now
LiveSeats(holds, token, show, now) ==
    {h.seat : h \in {x \in TokenHolds(holds, token, show) : x.expires_at >= now}}

\* DELETE FROM seat_holds WHERE expires_at <= now
ExpiredHoldsOrNow(holds, now) ==
    {h \in holds : h.expires_at <= now}

\* DELETE FROM seat_holds with no WHERE clause
ExpiredHoldsAll(holds, now) == holds

\* DELETE FROM seat_holds WHERE expires_at < now: the rows it deletes
ExpiredHolds(holds, now) ==
    {h \in holds : h.expires_at < now}

Others(p) == Procs \ {p}
Running(q) == pc[q] \notin {"idle", "done"}

\* The snapshot is taken by the call that starts while no other call runs;
\* n counts the calls begun since, which all overlap an earlier one.
SnapAtCall(p) ==
    IF \A q \in Others(p) : ~Running(q)
    THEN [seat_holds |-> seat_holds, seat_reservas |-> seat_reservas,
          clock |-> clock, n |-> 1, swept |-> {},
          password_reset_tokens |-> password_reset_tokens]
    ELSE [snap EXCEPT !.n = snap.n + 1]

\* A request p begins a call: p is idle; the snapshot is taken; where the
\* requests of a run are counted, one more is counted.
Begin(p, counted) ==
    /\ pc[p] = "idle"
    /\ snap' = SnapAtCall(p)
    /\ IF counted
       THEN ncalls < MaxCalls /\ ncalls' = ncalls + 1
       ELSE UNCHANGED ncalls

Init ==
    /\ seat_holds = {}
    /\ seat_reservas = {}
    /\ clock = 0
    /\ pc = [p \in Procs |-> "idle"]
    /\ call = [p \in Procs |-> NoCall]
    /\ snap = NoSnap
    /\ ncalls = 0
    /\ password_reset_tokens = {}
    /\ issued = {}
    /\ lastrowid = [p \in Procs |-> 0]
    /\ session = [b \in Tokens |-> [NoCookie EXCEPT !.hold_token = b]]
    /\ transacciones = <<>>

\* exp = now + int(ttl_sec)
Exp(c) == c.now + c.ttl_sec

\* the call returns or raises: its result is what the caller sees
Finish(p, result) ==
    /\ pc' = [pc EXCEPT ![p] = "done"]
    /\ call' = [call EXCEPT ![p].result = result, ![p].i = 0,
                            ![p].todo = {}, ![p].taken = {}]

\* ------------------------------------------------------------ hold_seats
\* lines 592-595: clean_seats, now, exp
HoldCall(p, shows, counted) ==
    /\ Begin(p, counted)
    /\ \E token \in Tokens, show \in shows, ttl \in 1..MaxTtl,
          seats \in SeqsUpTo(RawSeats, MaxSeatsPerCall) :
          call' = [call EXCEPT ![p] =
                      [NoCall EXCEPT !.op = "hold_seats", !.token = token,
                                     !.show = show,
                                     !.clean_seats = CleanSeats(seats),
                                     !.now = clock, !.ttl_sec = ttl]]
    /\ pc' = [pc EXCEPT ![p] = "hs_delete"]
    /\ UNCHANGED <<seat_holds, seat_reservas, clock>>
    /\ UNCHANGED <<resetVars, webVars>>

\* hold_seats without its DELETE: the new seats are added to the old ones
HoldDeleteKeeps(p) ==
    /\ pc[p] = "hs_delete"
    /\ IF call[p].clean_seats = <<>>
       THEN Finish(p, [NoResult EXCEPT !.kind = "ok"])
       ELSE /\ pc' = [pc EXCEPT ![p] = "hs_check"]
            /\ call' = call
    /\ UNCHANGED <<seat_holds, seat_reservas, clock, snap, ncalls>>
    /\ UNCHANGED <<resetVars, webVars>>

\* hold_seats with "if not clean_seats: return" placed before the DELETE
HoldDeleteUnlessEmpty(p) ==
    /\ pc[p] = "hs_delete"
    /\ IF call[p].clean_seats = <<>>
       THEN /\ Finish(p, [NoResult EXCEPT !.kind = "ok"])
            /\ UNCHANGED seat_holds
       ELSE /\ seat_holds' = seat_holds \ TokenHolds(seat_holds, call[p].token,
                                                      call[p].show)
            /\ pc' = [pc EXCEPT ![p] = "hs_check"]
            /\ call' = call
    /\ UNCHANGED <<seat_reservas, clock, snap, ncalls>>
    /\ UNCHANGED <<resetVars, webVars>>

\* lines 598-618: DELETE the token's holds of the show; return if no seats
HoldDelete(p) ==
    /\ pc[p] = "hs_delete"
    /\ seat_holds' = seat_holds \ TokenHolds(seat_holds, call[p].token, call[p].show)
    /\ IF call[p].clean_seats = <<>>
       THEN Finish(p, [NoResult EXCEPT !.kind = "ok"])
       ELSE /\ pc' = [pc EXCEPT ![p] = "hs_check"]
            /\ call' = call
    /\ UNCHANGED <<seat_reservas, clock, snap, ncalls>>
    /\ UNCHANGED <<resetVars, webVars>>

\* lines 620-634: SELECT the requested seats that are reserved
HoldCheck(p) ==
    /\ pc[p] = "hs_check"
    /\ LET conflicted == ConflictedSeats(seat_reservas, call[p].show,
                                         call[p].clean_seats)
       IN IF conflicted # {}
          THEN Finish(p, [NoResult EXCEPT !.kind = "ValueError",
                                          !.seats = conflicted])
          ELSE /\ pc' = [pc EXCEPT ![p] = "hs_insert"]
               /\ call' = [call EXCEPT ![p].i = 1]
    /\ UNCHANGED <<seat_holds, seat_reservas, clock, snap, ncalls>>
    /\ UNCHANGED <<resetVars, webVars>>

\* lines 641-660: one INSERT INTO seat_holds per iteration of the loop
HoldInsert(p) ==
    /\ pc[p] = "hs_insert"
    /\ LET s == call[p].clean_seats[call[p].i]
       IN IF UniqueViolation(seat_holds, call[p].show, s)
          THEN /\ Finish(p, [NoResult EXCEPT !.kind = "ValueError",
                                             !.seats = {s}])
               /\ UNCHANGED seat_holds
          ELSE /\ seat_holds' = seat_holds \cup
                      {HoldRow(call[p].token, call[p].show, s, Exp(call[p]))}
               /\ IF call[p].i = Len(call[p].clean_seats)
                  THEN Finish(p, [NoResult EXCEPT !.kind = "ok"])
                  ELSE /\ call' = [call EXCEPT ![p].i = call[p].i + 1]
                       /\ pc' = pc
    /\ UNCHANGED <<seat_reservas, clock, snap, ncalls>>
    /\ UNCHANGED <<resetVars, webVars>>

\* ---------------------------------------------------------- confirm_seats
\* line 700: now = int(time.time())
ConfirmCall(p, shows, counted) ==
    /\ Begin(p, counted)
    /\ \E token \in Tokens, show \in shows, pay \in Payments :
          call' = [call EXCEPT ![p] =
                      [NoCall EXCEPT !.op = "confirm_seats", !.token = token,
                                     !.show = show, !.pay = pay, !.now = clock]]
    /\ pc' = [pc EXCEPT ![p] = "cs_select"]
    /\ UNCHANGED <<seat_holds, seat_reservas, clock>>
    /\ UNCHANGED <<resetVars, webVars>>

\* lines 705-727: SELECT the token's holds of the show with expires_at >= now
ConfirmSelect(p) ==
    /\ pc[p] = "cs_select"
    /\ LET seats == LiveSeats(seat_holds, call[p].token, call[p].show, call[p].now)
       IN IF seats = {}
          THEN Finish(p, [NoResult EXCEPT !.kind = "ok"])
          ELSE /\ pc' = [pc EXCEPT ![p] = "cs_insert"]
               /\ call' = [call EXCEPT ![p].seats = seats, ![p].todo = seats]
    /\ UNCHANGED <<seat_holds, seat_reservas, clock, snap, ncalls>>
    /\ UNCHANGED <<resetVars, webVars>>

\* lines 731-742: one INSERT INTO seat_reservas per iteration of the loop
\* (the SELECT has no ORDER BY: the seats come in any order)
ConfirmInsert(p) ==
    /\ pc[p] = "cs_insert"
    /\ \E s \in call[p].todo :
          IF UniqueViolation(seat_reservas, call[p].show, s)
          THEN /\ Finish(p, [NoResult EXCEPT !.kind = "ValueError",
                                             !.seats = {s}])
               /\ UNCHANGED seat_reservas
          ELSE /\ seat_reservas' = seat_reservas \cup
                      {ReservaRow(call[p].pay, call[p].show, s)}
               /\ call' = [call EXCEPT ![p].todo = call[p].todo \ {s}]
               /\ pc' = [pc EXCEPT ![p] =
                            IF call[p].todo = {s} THEN "cs_delete" ELSE "cs_insert"]
    /\ UNCHANGED <<seat_holds, clock, snap, ncalls>>
    /\ UNCHANGED <<resetVars, webVars>>

\* confirm_seats without its DELETE: the holds stay
ConfirmDeleteKeeps(p) ==
    /\ pc[p] = "cs_delete"
    /\ Finish(p, [NoResult EXCEPT !.kind = "ok", !.seats = call[p].seats])
    /\ UNCHANGED <<seat_holds, seat_reservas, clock, snap, ncalls>>
    /\ UNCHANGED <<resetVars, webVars>>

\* lines 744-762: DELETE the token's holds of the show; return seats
ConfirmDelete(p) ==
    /\ pc[p] = "cs_delete"
    /\ seat_holds' = seat_holds \ TokenHolds(seat_holds, call[p].token, call[p].show)
    /\ Finish(p, [NoResult EXCEPT !.kind = "ok", !.seats = call[p].seats])
    /\ UNCHANGED <<seat_reservas, clock, snap, ncalls>>
    /\ UNCHANGED <<resetVars, webVars>>

\* ---------------------------------------------------- purge_expired_holds
\* line 516: now = int(time.time())
PurgeCall(p, counted) ==
    /\ Begin(p, counted)
    /\ call' = [call EXCEPT ![p] =
                   [NoCall EXCEPT !.op = "purge_expired_holds", !.now = clock]]
    /\ pc' = [pc EXCEPT ![p] = "pe_delete"]
    /\ UNCHANGED <<seat_holds, seat_reservas, clock>>
    /\ UNCHANGED <<resetVars, webVars>>

\* lines 518-520: DELETE FROM seat_holds WHERE expires_at < now; return rowcount
PurgeDelete(p) ==
    /\ pc[p] = "pe_delete"
    /\ LET gone == ExpiredHolds(seat_holds, call[p].now)
       IN /\ seat_holds' = seat_holds \ gone
          /\ snap' = [snap EXCEPT !.swept = snap.swept \cup gone]
          /\ Finish(p, [NoResult EXCEPT !.kind = "ok", !.count = Cardinality(gone)])
    /\ UNCHANGED <<seat_reservas, clock, ncalls>>
    /\ UNCHANGED <<resetVars, webVars>>

\* ----------------------------------------------------------- release_hold
ReleaseCall(p, shows, counted) ==
    /\ Begin(p, counted)
    /\ \E token \in Tokens, show \in shows :
          call' = [call EXCEPT ![p] =
                      [NoCall EXCEPT !.op = "release_hold", !.token = token,
                                     !.show = show]]
    /\ pc' = [pc EXCEPT ![p] = "rh_delete"]
    /\ UNCHANGED <<seat_holds, seat_reservas, clock>>
    /\ UNCHANGED <<resetVars, webVars>>

\* lines 666-683: DELETE the token's holds of the show; return rowcount
ReleaseDelete(p) ==
    /\ pc[p] = "rh_delete"
    /\ LET gone == TokenHolds(seat_holds, call[p].token, call[p].show)
       IN /\ seat_holds' = seat_holds \ gone
          /\ Finish(p, [NoResult EXCEPT !.kind = "ok", !.count = Cardinality(gone)])
    /\ UNCHANGED <<seat_reservas, clock, snap, ncalls>>
    /\ UNCHANGED <<resetVars, webVars>>

\* ----------------------------------------------------- get_occupied_seats
\* exclude_token is Optional[str]: None and '' both take the branch without
\* the token filter (line 554: "if exclude_token and ...")
NoToken == ""

\* lines 535: now = int(time.time())
OccupiedCall(p, shows, counted) ==
    /\ Begin(p, counted)
    /\ \E show \in shows, exclude_token \in Tokens \cup {NoToken} :
          call' = [call EXCEPT ![p] =
                      [NoCall EXCEPT !.op = "get_occupied_seats", !.show = show,
                                     !.exclude_token = exclude_token,
                                     !.now = clock]]
    /\ pc' = [pc EXCEPT ![p] = "go_reservas"]
    /\ UNCHANGED <<seat_holds, seat_reservas, clock>>
    /\ UNCHANGED <<resetVars, webVars>>

\* the query on seat_reservas finds nothing
TakenSeatsNone(reservas, show) == {}

\* lines 542-551: taken = seats of the reservations of the show
TakenSeats(reservas, show) ==
    {r.seat : r \in {x \in reservas : OfShow(x, show)}}

\* the query without "AND token <> ?"
HeldSeatsOfAll(holds, show, now, exclude_token) ==
    {h.seat : h \in {x \in holds : OfShow(x, show) /\ x.expires_at >= now}}

\* the query without "AND expires_at >= ?"
HeldSeatsEver(holds, show, now, exclude_token) ==
    {h.seat : h \in {x \in holds : /\ OfShow(x, show)
                                   /\ x.token # exclude_token}}

\* lines 553-573: held = seats of the holds of the show with expires_at >= now,
\* of a token other than exclude_token when one is given
HeldSeats(holds, show, now, exclude_token) ==
    IF exclude_token # NoToken
    THEN {h.seat : h \in {x \in holds : /\ OfShow(x, show)
                                        /\ x.expires_at >= now
                                        /\ x.token # exclude_token}}
    ELSE {h.seat : h \in {x \in holds : /\ OfShow(x, show)
                                        /\ x.expires_at >= now}}

OccupiedReservas(p) ==
    /\ pc[p] = "go_reservas"
    /\ call' = [call EXCEPT ![p].taken = TakenSeats(seat_reservas, call[p].show)]
    /\ pc' = [pc EXCEPT ![p] = "go_holds"]
    /\ UNCHANGED <<seat_holds, seat_reservas, clock, snap, ncalls>>
    /\ UNCHANGED <<resetVars, webVars>>

\* line 575: return taken | held
OccupiedHolds(p) ==
    /\ pc[p] = "go_holds"
    /\ LET held == HeldSeats(seat_holds, call[p].show, call[p].now,
                             call[p].exclude_token)
       IN Finish(p, [NoResult EXCEPT !.kind = "ok",
                                     !.seats = call[p].taken \cup held])
    /\ UNCHANGED <<seat_holds, seat_reservas, clock, snap, ncalls>>
    /\ UNCHANGED <<resetVars, webVars>>

\* get_occupied_seats run on one ledger state at one time
GetOccupiedSeats(holds, reservas, show, now, exclude_token) ==
    TakenSeats(reservas, show) \cup HeldSeats(holds, show, now, exclude_token)

\* ------------------------------------------------------------------ rest
\* the caller takes the result; the request ends
Return(p) ==
    /\ pc[p] = "done"
    /\ pc' = [pc EXCEPT ![p] = "idle"]
    /\ call' = [call EXCEPT ![p] = NoCall]
    /\ snap' = IF \A q \in Others(p) : ~Running(q) THEN NoSnap ELSE snap
    /\ UNCHANGED <<seat_holds, seat_reservas, clock, ncalls>>
    /\ UNCHANGED <<resetVars, webVars>>

\* time.time() advances
Tick ==
    /\ clock < MaxTime
    /\ clock' = clock + 1
    /\ UNCHANGED <<seat_holds, seat_reservas, pc, call, snap, ncalls>>
    /\ UNCHANGED <<resetVars, webVars>>

\* Requests of several workers on one show that write the ledger (hold_seats,
\* confirm_seats, release_hold, purge_expired_holds), statements interleaved;
\* at most MaxCalls requests in a run; snap is the ledger as the first of the
\* running calls found it.
Next ==
    \/ \E p \in Procs : HoldCall(p, {Show1}, TRUE)
    \/ \E p \in Procs : HoldDelete(p)
    \/ \E p \in Procs : HoldCheck(p)
    \/ \E p \in Procs : HoldInsert(p)
    \/ \E p \in Procs : ConfirmCall(p, {Show1}, TRUE)
    \/ \E p \in Procs : ConfirmSelect(p)
    \/ \E p \in Procs : ConfirmInsert(p)
    \/ \E p \in Procs : ConfirmDelete(p)
    \/ \E p \in Procs : PurgeCall(p, TRUE)
    \/ \E p \in Procs : PurgeDelete(p)
    \/ \E p \in Procs : ReleaseCall(p, {Show1}, TRUE)
    \/ \E p \in Procs : ReleaseDelete(p)
    \/ \E p \in Procs : Return(p)
    \/ Tick

Spec == Init /\ [][Next]_vars

\* One request at a time (calls do not overlap), any number of requests, on
\* all shows; snap is the ledger as the running call found it.
SeqNext ==
    \/ HoldCall("p1", Shows, FALSE)
    \/ HoldDelete("p1")
    \/ HoldCheck("p1")
    \/ HoldInsert("p1")
    \/ ConfirmCall("p1", Shows, FALSE)
    \/ ConfirmSelect("p1")
    \/ ConfirmInsert("p1")
    \/ ConfirmDelete("p1")
    \/ PurgeCall("p1", FALSE)
    \/ PurgeDelete("p1")
    \/ ReleaseCall("p1", Shows, FALSE)
    \/ ReleaseDelete("p1")
    \/ OccupiedCall("p1", Shows, FALSE)
    \/ OccupiedReservas("p1")
    \/ OccupiedHolds("p1")
    \/ Return("p1")
    \/ Tick

SeqSpec == Init /\ [][SeqNext]_vars

\* One payment request (confirm_seats, run once by worker p1) against the
\* requests of another worker on the same show: seat selection
\* (get_occupied_seats, hold_seats) and the sweep (purge_expired_holds), at
\* most MaxCalls of them; statements interleaved.
RaceNext ==
    \/ ConfirmCall("p1", {Show1}, FALSE)
    \/ ConfirmSelect("p1")
    \/ ConfirmInsert("p1")
    \/ ConfirmDelete("p1")
    \/ HoldCall("p2", {Show1}, TRUE)
    \/ HoldDelete("p2")
    \/ HoldCheck("p2")
    \/ HoldInsert("p2")
    \/ PurgeCall("p2", TRUE)
    \/ PurgeDelete("p2")
    \/ OccupiedCall("p2", {Show1}, TRUE)
    \/ OccupiedReservas("p2")
    \/ OccupiedHolds("p2")
    \/ Return("p2")
    \/ Tick

RaceSpec == Init /\ [][RaceNext]_vars

\* ------------------------------------------------- a call run on its own
\* hold_seats from its first statement to its last with no other statement
\* in between: the ledger it leaves and what it returns or raises.
RECURSIVE HoldInsertRun(_, _, _, _)
HoldInsertRun(holds, reservas, c, i) ==
    IF i > Len(c.clean_seats)
    THEN [seat_holds |-> holds, seat_reservas |-> reservas,
          result |-> [NoResult EXCEPT !.kind = "ok"]]
    ELSE IF UniqueViolation(holds, c.show, c.clean_seats[i])
         THEN [seat_holds |-> holds, seat_reservas |-> reservas,
               result |-> [NoResult EXCEPT !.kind = "ValueError",
                                           !.seats = {c.clean_seats[i]}]]
         ELSE HoldInsertRun(
                  holds \cup {HoldRow(c.token, c.show, c.clean_seats[i], Exp(c))},
                  reservas, c, i + 1)

HoldSeatsRun(holds, reservas, c) ==
    LET kept == holds \ TokenHolds(holds, c.token, c.show)
        conflicted == ConflictedSeats(reservas, c.show, c.clean_seats)
    IN IF c.clean_seats = <<>>
       THEN {[seat_holds |-> kept, seat_reservas |-> reservas,
              result |-> [NoResult EXCEPT !.kind = "ok"]]}
       ELSE IF conflicted # {}
            THEN {[seat_holds |-> kept, seat_reservas |-> reservas,
                   result |-> [NoResult EXCEPT !.kind = "ValueError",
                                               !.seats = conflicted]]}
            ELSE {HoldInsertRun(kept, reservas, c, 1)}

\* confirm_seats run on its own; the loop takes the seats in any order
RECURSIVE ConfirmInsertRun(_, _, _, _, _)
ConfirmInsertRun(holds, reservas, c, seats, todo) ==
    IF todo = {}
    THEN {[seat_holds |-> holds \ TokenHolds(holds, c.token, c.show),
           seat_reservas |-> reservas,
           result |-> [NoResult EXCEPT !.kind = "ok", !.seats = seats]]}
    ELSE UNION {IF UniqueViolation(reservas, c.show, s)
                THEN {[seat_holds |-> holds, seat_reservas |-> reservas,
                       result |-> [NoResult EXCEPT !.kind = "ValueError",
                                                   !.seats = {s}]]}
                ELSE ConfirmInsertRun(holds,
                                      reservas \cup {ReservaRow(c.pay, c.show, s)},
                                      c, seats, todo \ {s})
                : s \in todo}

ConfirmSeatsRun(holds, reservas, c) ==
    LET seats == LiveSeats(holds, c.token, c.show, c.now)
    IN IF seats = {}
       THEN {[seat_holds |-> holds, seat_reservas |-> reservas,
              result |-> [NoResult EXCEPT !.kind = "ok"]]}
       ELSE ConfirmInsertRun(holds, reservas, c, seats, seats)

\* the call c run on its own at time now
RunAlone(holds, reservas, c, now) ==
    IF c.op = "hold_seats"
    THEN HoldSeatsRun(holds, reservas, [c EXCEPT !.now = now])
    ELSE ConfirmSeatsRun(holds, reservas, [c EXCEPT !.now = now])

\* ------------------------------------------------- password_reset_tokens
\* The table has a unique index on token; the column id, which no function
\* reads, is left out.
ResetRow(user_id, token, expires_at) ==
    [user_id |-> user_id, token |-> token, expires_at |-> expires_at, used |-> 0]

\* execute(): "last_id = cur.lastrowid ... return int(last_id or 0)".  The
\* cursor's lastrowid is the connection's last insert rowid whatever the
\* statement was: 0 until the connection has inserted a row.
Execute(p) == lastrowid[p]

\* create_password_reset_token: token = secrets.token_urlsafe(32), a value
\* not returned before; expires_at = int(time.time()) + 3600
CreateCall(p) ==
    /\ Begin(p, FALSE)
    /\ \E user_id \in Users, token \in ResetTokens \ issued :
          /\ issued' = issued \cup {token}
          /\ call' = [call EXCEPT ![p] =
                         [NoCall EXCEPT !.op = "create_password_reset_token",
                                        !.user_id = user_id, !.token = token,
                                        !.now = clock,
                                        !.expires_at = clock + ResetTtl]]
    /\ pc' = [pc EXCEPT ![p] = "cp_delete"]
    /\ UNCHANGED <<seat_holds, seat_reservas, clock, password_reset_tokens,
                   lastrowid, webVars>>

\* DELETE FROM password_reset_tokens WHERE user_id = ?
CreateDelete(p) ==
    /\ pc[p] = "cp_delete"
    /\ password_reset_tokens' =
           {r \in password_reset_tokens : r.user_id # call[p].user_id}
    /\ pc' = [pc EXCEPT ![p] = "cp_insert"]
    /\ UNCHANGED <<seat_holds, seat_reservas, clock, call, snap, ncalls, issued,
                   lastrowid, webVars>>

\* INSERT INTO password_reset_tokens (user_id, token, expires_at); return
\* token.  The id AUTOINCREMENT gives the row, the connection's last insert
\* rowid from now on, is the number of rows inserted so far.
CreateInsert(p) ==
    /\ pc[p] = "cp_insert"
    /\ password_reset_tokens' = password_reset_tokens \cup
           {ResetRow(call[p].user_id, call[p].token, call[p].expires_at)}
    /\ lastrowid' = [lastrowid EXCEPT ![p] = Cardinality(issued)]
    /\ Finish(p, [NoResult EXCEPT !.kind = "ok", !.token = call[p].token])
    /\ UNCHANGED <<seat_holds, seat_reservas, clock, snap, ncalls, issued, webVars>>

\* the SELECT without "AND used = 0"
ValidRowsUsedToo(rows, token, current_time) ==
    {r \in rows : r.token = token /\ r.expires_at > current_time}

\* SELECT user_id FROM password_reset_tokens
\* WHERE token = ? AND expires_at > ? AND used = 0
ValidRows(rows, token, current_time) ==
    {r \in rows : r.token = token /\ r.expires_at > current_time /\ r.used = 0}

\* validate_password_reset_token, given a token some call has returned or a
\* string that is no token: current_time = int(time.time())
ValidateCall(p) ==
    /\ Begin(p, FALSE)
    /\ \E token \in issued \cup {UnknownToken} :
          call' = [call EXCEPT ![p] =
                      [NoCall EXCEPT !.op = "validate_password_reset_token",
                                     !.token = token, !.now = clock]]
    /\ pc' = [pc EXCEPT ![p] = "vt_select"]
    /\ UNCHANGED <<seat_holds, seat_reservas, clock, resetVars, webVars>>

\* return row["user_id"] if row else None
ValidateSelect(p) ==
    /\ pc[p] = "vt_select"
    /\ LET rows == ValidRows(password_reset_tokens, call[p].token, call[p].now)
       IN Finish(p, [NoResult EXCEPT
                        !.kind = "ok",
                        !.user_id = IF rows = {} THEN NoUser
                                    ELSE (CHOOSE r \in rows : TRUE).user_id])
    /\ UNCHANGED <<seat_holds, seat_reservas, clock, snap, ncalls, resetVars,
                   webVars>>

\* use_password_reset_token
UseCall(p) ==
    /\ Begin(p, FALSE)
    /\ \E token \in issued \cup {UnknownToken} :
          call' = [call EXCEPT ![p] =
                      [NoCall EXCEPT !.op = "use_password_reset_token",
                                     !.token = token]]
    /\ pc' = [pc EXCEPT ![p] = "ut_update"]
    /\ UNCHANGED <<seat_holds, seat_reservas, clock, resetVars, webVars>>

\* result = execute("UPDATE password_reset_tokens SET used = 1
\* WHERE token = ? AND used = 0"); return result > 0
UseUpdate(p) ==
    /\ pc[p] = "ut_update"
    /\ password_reset_tokens' =
           {IF r.token = call[p].token /\ r.used = 0 THEN [r EXCEPT !.used = 1]
            ELSE r : r \in password_reset_tokens}
    /\ Finish(p, [NoResult EXCEPT !.kind = "ok", !.ok = (Execute(p) > 0)])
    /\ UNCHANGED <<seat_holds, seat_reservas, clock, snap, ncalls, issued,
                   lastrowid, webVars>>

\* cleanup_expired_reset_tokens: current_time = int(time.time())
CleanupCall(p) ==
    /\ Begin(p, FALSE)
    /\ call' = [call EXCEPT ![p] =
                   [NoCall EXCEPT !.op = "cleanup_expired_reset_tokens",
                                  !.now = clock]]
    /\ pc' = [pc EXCEPT ![p] = "ct_delete"]
    /\ UNCHANGED <<seat_holds, seat_reservas, clock, resetVars, webVars>>

\* DELETE FROM password_reset_tokens WHERE expires_at < ?
CleanupDelete(p) ==
    /\ pc[p] = "ct_delete"
    /\ password_reset_tokens' =
           {r \in password_reset_tokens : ~(r.expires_at < call[p].now)}
    /\ Finish(p, [NoResult EXCEPT !.kind = "ok"])
    /\ UNCHANGED <<seat_holds, seat_reservas, clock, snap, ncalls, issued,
                   lastrowid, webVars>>

\* close_conn at the end of the request (teardown_appcontext): the next call
\* of the worker runs on a new connection
CloseConn(p) ==
    /\ pc[p] = "idle"
    /\ lastrowid[p] # 0
    /\ lastrowid' = [lastrowid EXCEPT ![p] = 0]
    /\ UNCHANGED <<seat_holds, seat_reservas, clock, pc, call, snap, ncalls,
                   password_reset_tokens, issued, webVars>>

\* The password reset functions called one after the other, several of them
\* on one connection or each on a new one.
ResetNext ==
    \/ CreateCall("p1")
    \/ CreateDelete("p1")
    \/ CreateInsert("p1")
    \/ ValidateCall("p1")
    \/ ValidateSelect("p1")
    \/ UseCall("p1")
    \/ UseUpdate("p1")
    \/ CleanupCall("p1")
    \/ CleanupDelete("p1")
    \/ Return("p1")
    \/ CloseConn("p1")
    \/ Tick

ResetSpec == Init /\ [][ResetNext]_vars

\* ----------------------------------------------------------- web requests
\* A request carries the session cookie the browser holds when it sends it;
\* the handler runs on that copy, and every response of these handlers sets
\* the cookie (they write the session or flash a message, which is kept in
\* the session).  The handlers are run one at a time, each from its first
\* statement to its last; two requests of a browser may be on their way at
\* once.  Each browser has chosen show Show1 (session["movie_selection"]) and
\* has the hold_token _ensure_hold_token gave it; a browser whose purchase
\* is complete, and whose hold_token is gone, selects no more seats.

\* _normalize_seats, the form value given as its comma-separated parts
RECURSIVE NormalizeSeats(_)
NormalizeSeats(parts) ==
    IF parts = <<>> THEN <<>>
    ELSE IF Strip(Head(parts)) # <<>>
         THEN <<UpperStr(Strip(Head(parts)))>> \o NormalizeSeats(Tail(parts))
         ELSE NormalizeSeats(Tail(parts))

\* the email of the user logged in on browser b
Email(b) == IF b = "tA" THEN "e1" ELSE "e2"

\* _marcar and the UPDATE of mp_success: UPDATE transacciones SET estado=?
\* WHERE id=?
Marcar(trx_id, estado) ==
    [k \in 1..Len(transacciones) |->
        IF k = trx_id THEN [transacciones[k] EXCEPT !.estado = estado]
        ELSE transacciones[k]]

\* a request is sent by a browser: one more request of the run
Sent(p) ==
    /\ pc[p] = "idle"
    /\ ncalls < MaxRequests
    /\ ncalls' = ncalls + 1

\* the response: the browser stores the cookie, the handler has returned
Respond(p, cookie, c) ==
    /\ session' = [session EXCEPT ![call[p].browser] = cookie]
    /\ call' = [call EXCEPT ![p] = c]
    /\ pc' = [pc EXCEPT ![p] = "done"]

\* POST /reserva-asientos is sent
ReservaPostCall(p) ==
    /\ Sent(p)
    /\ \E b \in Tokens, seats_raw \in SeqsUpTo(RawSeats, MaxSeatsPerCall) :
          /\ session[b].hold_token # NoToken
          /\ call' = [call EXCEPT ![p] =
                         [NoCall EXCEPT !.op = "reserva_asientos", !.browser = b,
                                        !.cookie = session[b],
                                        !.token = session[b].hold_token,
                                        !.show = Show1,
                                        !.selected = NormalizeSeats(seats_raw)]]
    /\ pc' = [pc EXCEPT ![p] = "ra_post"]
    /\ UNCHANGED <<seat_holds, seat_reservas, clock, snap, resetVars,
                   webVars>>

\* reserva_asientos, POST: purge_expired_holds; reserved_set =
\* get_occupied_seats(exclude_token=hold_token); the three checks; hold_seats;
\* session["seats"] = selected when hold_seats has returned
ReservaPost(p) ==
    /\ pc[p] = "ra_post"
    /\ LET c == call[p]
           purged == seat_holds \ ExpiredHolds(seat_holds, clock)
           reserved_set == GetOccupiedSeats(purged, seat_reservas, c.show, clock,
                                            c.token)
           still_occupied == {s \in SeqRange(c.selected) : s \in reserved_set}
       IN IF \/ c.selected = <<>>
             \/ Len(c.selected) > MaxPerOrder
             \/ still_occupied # {}
          THEN /\ seat_holds' = purged
               /\ Respond(p, c.cookie,
                          [c EXCEPT !.now = clock,
                                    !.result = [NoResult EXCEPT
                                                   !.kind = "redirect",
                                                   !.seats = still_occupied]])
          ELSE \E ttl \in 1..MaxTtl :
                  LET h == [c EXCEPT !.clean_seats = CleanSeats(c.selected),
                                     !.now = clock, !.ttl_sec = ttl]
                  IN \E o \in HoldSeatsRun(purged, seat_reservas, h) :
                        /\ seat_holds' = o.seat_holds
                        /\ Respond(p,
                                   IF o.result.kind = "ok"
                                   THEN [c.cookie EXCEPT !.seats = c.selected]
                                   ELSE c.cookie,
                                   [h EXCEPT !.result = o.result])
    /\ UNCHANGED <<seat_reservas, clock, snap, ncalls, resetVars, transacciones>>

\* POST /pago is sent
PagoPostCall(p) ==
    /\ Sent(p)
    /\ Len(transacciones) + Cardinality({q \in Procs : pc[q] = "pg_post"}) < MaxTrx
    /\ \E b \in Tokens :
          call' = [call EXCEPT ![p] =
                      [NoCall EXCEPT !.op = "pago", !.browser = b,
                                     !.cookie = session[b], !.show = Show1]]
    /\ pc' = [pc EXCEPT ![p] = "pg_post"]
    /\ UNCHANGED <<seat_holds, seat_reservas, clock, snap, resetVars,
                   webVars>>

\* pago, POST: without seats in the session, back to the form; else
\* session["checkout_email"]; INSERT INTO transacciones (estado INICIADO);
\* session["trx_id_mp"] = its id; estado PENDIENTE once Mercado Pago has
\* created the preference
PagoPost(p) ==
    /\ pc[p] = "pg_post"
    /\ LET c == call[p]
           trx_id == Len(transacciones) + 1
       IN IF c.cookie.seats = <<>>
          THEN /\ UNCHANGED transacciones
               /\ Respond(p, c.cookie,
                          [c EXCEPT !.result = [NoResult EXCEPT !.kind = "redirect"]])
          ELSE \E created \in BOOLEAN :
                  /\ transacciones' =
                         Append(transacciones,
                                [usuario_email |-> Email(c.browser),
                                 estado |-> IF created THEN "PENDIENTE"
                                            ELSE "INICIADO"])
                  /\ Respond(p,
                             [c.cookie EXCEPT !.checkout_email = Email(c.browser),
                                              !.trx_id_mp = trx_id],
                             [c EXCEPT !.pay = [usuario_email |-> Email(c.browser),
                                                trx_id |-> trx_id],
                                       !.result = [NoResult EXCEPT
                                                      !.kind = IF created THEN "ok"
                                                               ELSE "redirect"]])
    /\ UNCHANGED <<seat_holds, seat_reservas, clock, snap, ncalls, resetVars>>

\* GET /pago/mp/success is sent, with the payment_id of a payment that
\* Mercado Pago reports as approved or not
MpSuccessCall(p) ==
    /\ Sent(p)
    /\ \E b \in Tokens, approved \in BOOLEAN :
          call' = [call EXCEPT ![p] =
                      [NoCall EXCEPT !.op = "mp_success", !.browser = b,
                                     !.cookie = session[b],
                                     !.token = session[b].hold_token,
                                     !.show = Show1, !.approved = approved,
                                     !.pay = [usuario_email |->
                                                  session[b].checkout_email,
                                              trx_id |-> session[b].trx_id_mp]]]
    /\ pc' = [pc EXCEPT ![p] = "ms_get"]
    /\ UNCHANGED <<seat_holds, seat_reservas, clock, snap, resetVars,
                   webVars>>

\* mp_success: no trx_id_mp in the session: back to the form; payment not
\* approved: RECHAZADA; confirm_seats returns nothing or raises ValueError:
\* RECHAZADA; else APROBADO and the keys seats, hold_token, trx_id_mp and
\* checkout_email are popped from the session
MpSuccess(p) ==
    /\ pc[p] = "ms_get"
    /\ LET c == call[p]
       IN IF c.cookie.trx_id_mp = 0
          THEN /\ UNCHANGED <<seat_holds, seat_reservas, transacciones>>
               /\ Respond(p, c.cookie,
                          [c EXCEPT !.result = [NoResult EXCEPT !.kind = "redirect"]])
          ELSE IF ~c.approved
          THEN /\ transacciones' = Marcar(c.cookie.trx_id_mp, "RECHAZADA")
               /\ UNCHANGED <<seat_holds, seat_reservas>>
               /\ Respond(p, c.cookie,
                          [c EXCEPT !.result = [NoResult EXCEPT !.kind = "redirect"]])
          ELSE \E o \in ConfirmSeatsRun(seat_holds, seat_reservas,
                                        [c EXCEPT !.now = clock]) :
                  /\ seat_holds' = o.seat_holds
                  /\ seat_reservas' = o.seat_reservas
                  /\ IF o.result.kind = "ValueError" \/ o.result.seats = {}
                     THEN /\ transacciones' =
                                Marcar(c.cookie.trx_id_mp, "RECHAZADA")
                          /\ Respond(p, c.cookie,
                                     [c EXCEPT !.now = clock,
                                               !.result = [o.result EXCEPT
                                                              !.kind = "redirect"]])
                     ELSE /\ transacciones' =
                                Marcar(c.cookie.trx_id_mp, "APROBADO")
                          /\ Respond(p,
                                     [c.cookie EXCEPT !.seats = <<>>,
                                                      !.hold_token = NoToken,
                                                      !.trx_id_mp = 0,
                                                      !.checkout_email = ""],
                                     [c EXCEPT !.now = clock,
                                               !.result = o.result])
    /\ UNCHANGED <<clock, snap, ncalls, resetVars>>

\* The requests of the purchase: seat selection and start of the payment,
\* taken by worker p1, and the return from Mercado Pago, taken by either
\* worker, so that two returns of one browser can be on their way at once.
WebNext ==
    \/ ReservaPostCall("p1")
    \/ ReservaPost("p1")
    \/ PagoPostCall("p1")
    \/ PagoPost("p1")
    \/ \E p \in Procs : MpSuccessCall(p)
    \/ \E p \in Procs : MpSuccess(p)
    \/ \E p \in Procs : Return(p)
    \/ Tick

WebSpec == Init /\ [][WebNext]_vars

\* ------------------------------------------------------------ vocabulary
Done(p, op) == pc[p] = "done" /\ call[p].op = op
Raised(p) == call[p].result.kind = "ValueError"
Returned(p) == call[p].result.kind = "ok"
Requested(p) == SeqRange(call[p].clean_seats)
\* the cleaned seat list names no seat twice
NoRepeat(p) == Cardinality(Requested(p)) = Len(call[p].clean_seats)
SameSeat(r1, r2) ==
    /\ r1.movie_id = r2.movie_id
    /\ r1.fecha = r2.fecha
    /\ r1.hora = r2.hora
    /\ r1.sala = r2.sala
    /\ r1.seat = r2.seat
\* a hold row without its expiry
Who(h) == [token |-> h.token, movie_id |-> h.movie_id, fecha |-> h.fecha,
           hora |-> h.hora, sala |-> h.sala, seat |-> h.seat]

\* ------------------------------------------------------------------- C1
\* C1: in every reachable state, whatever the interleaving of the statements
\* of hold_seats, confirm_seats, release_hold and purge_expired_holds, no two
\* rows of seat_reservas are for the same seat of the same show.
C1_ReservasUnique ==
    \A r1, r2 \in seat_reservas : SameSeat(r1, r2) => r1 = r2

\* a second reservation of a reserved seat was tried and refused by the index
C1_Witness ==
    \E p \in Procs :
        /\ Done(p, "confirm_seats")
        /\ Raised(p)
        /\ \E r \in seat_reservas :
              OfShow(r, call[p].show) /\ r.seat \in call[p].result.seats

\* ------------------------------------------------------------------- C2
\* C2: at every observation point (the states between two statements
\* included) no seat of a show has both a reservation row and a hold row that
\* has not expired.
C2_NeverHeldAndReserved ==
    \A r \in seat_reservas, h \in seat_holds :
        ~(SameSeat(r, h) /\ h.expires_at >= clock)

\* ------------------------------------------------------------------- C3
\* C3: of two hold_seats calls of distinct tokens that overlap in time, on the
\* same show, both asking for seat s, at most one returns, and when one
\* returns the other raises a ValueError that names s.
C3_ContestedSeatOneWinner ==
    \A p, q \in Procs : \A s \in Seats :
        ( /\ p # q
          /\ snap.n = 2
          /\ Done(p, "hold_seats") /\ Done(q, "hold_seats")
          /\ call[p].token # call[q].token
          /\ call[p].show = call[q].show
          /\ s \in Requested(p) \cap Requested(q) )
        => /\ ~(Returned(p) /\ Returned(q))
           /\ Returned(p) => (Raised(q) /\ s \in call[q].result.seats)

\* ------------------------------------------------------------------- C4
\* C4: two overlapping calls of hold_seats / confirm_seats end with results
\* and a ledger that the two calls, run one after the other in some order
\* from the ledger the first of them found, also produce (hold rows compared
\* without their expiry, the serial run being free to take place at any
\* times from then on).  Calls whose seat list repeats a seat are left
\* aside.
SerialTimes == 0..(MaxTime + MaxTtl + 1)

SerialOutcome(first, second) ==
    \E n1, n2 \in SerialTimes :
        /\ snap.clock <= n1 /\ n1 <= n2
        /\ \E o1 \in RunAlone(snap.seat_holds, snap.seat_reservas, call[first], n1) :
           \E o2 \in RunAlone(o1.seat_holds, o1.seat_reservas, call[second], n2) :
              /\ o1.result = call[first].result
              /\ o2.result = call[second].result
              /\ {Who(h) : h \in o2.seat_holds} = {Who(h) : h \in seat_holds}
              /\ o2.seat_reservas = seat_reservas

C4_Serializable ==
    \A p, q \in Procs :
        ( /\ p # q
          /\ snap.n = 2
          /\ pc[p] = "done" /\ pc[q] = "done"
          /\ call[p].op \in {"hold_seats", "confirm_seats"}
          /\ call[q].op \in {"hold_seats", "confirm_seats"}
          /\ NoRepeat(p) /\ NoRepeat(q) )
        => (SerialOutcome(p, q) \/ SerialOutcome(q, p))

\* ------------------------------------------------- calls that do not overlap
\* what get_occupied_seats(show, exclude_token=token) returned had it been
\* called when the running call was
OccupiedAtCall(p) ==
    GetOccupiedSeats(snap.seat_holds, snap.seat_reservas, call[p].show,
                     snap.clock, call[p].token)

\* the seats for which the token has a hold row of the show
SeatsOf(holds, token, show) == {h.seat : h \in TokenHolds(holds, token, show)}

\* ------------------------------------------------------------------- C5
\* C5: when a requested seat is, at call time, reserved or held (not expired)
\* by another token, hold_seats raises ValueError and the token has no hold
\* row for that seat afterwards.
C5_OccupiedSeatRefused ==
    \A p \in Procs :
        Done(p, "hold_seats") =>
            \A s \in Requested(p) \cap OccupiedAtCall(p) :
                /\ Raised(p)
                /\ s \notin SeatsOf(seat_holds, call[p].token, call[p].show)

\* a call that asked for a reserved seat and for a seat another token holds
C5_Witness ==
    \E p \in Procs :
        /\ Done(p, "hold_seats")
        /\ Raised(p)
        /\ \E s \in Requested(p) :
              s \in TakenSeats(snap.seat_reservas, call[p].show)
        /\ \E s \in Requested(p) :
              /\ s \notin TakenSeats(snap.seat_reservas, call[p].show)
              /\ s \in OccupiedAtCall(p)

\* ------------------------------------------------------------------- C6
\* C6: when hold_seats raises, the token has no hold row for any of the seats
\* it requested (stated for a list that names no seat twice).
C6_NoPartialHold ==
    \A p \in Procs :
        (Done(p, "hold_seats") /\ Raised(p) /\ NoRepeat(p)) =>
            Requested(p) \cap SeatsOf(seat_holds, call[p].token, call[p].show) = {}

\* ------------------------------------------------------------------- C7
\* C7: after hold_seats returns, the token's hold rows of the show are one
\* row per requested (cleaned) seat, each expiring at call time + ttl, and a
\* seat the token held before and did not request again has no hold row.
C7_HoldReplaces ==
    \A p \in Procs :
        (Done(p, "hold_seats") /\ Returned(p)) =>
            /\ TokenHolds(seat_holds, call[p].token, call[p].show)
                   = {[token |-> call[p].token, movie_id |-> call[p].show.movie_id,
                       fecha |-> call[p].show.fecha, hora |-> call[p].show.hora,
                       sala |-> call[p].show.sala, seat |-> s,
                       expires_at |-> snap.clock + call[p].ttl_sec]
                      : s \in Requested(p)}
            /\ \A s \in SeatsOf(snap.seat_holds, call[p].token, call[p].show)
                            \ Requested(p) :
                  ~\E h \in seat_holds : OfShow(h, call[p].show) /\ h.seat = s

\* a successful call that asked for a seat and dropped the seat held before
C7_Witness ==
    \E p \in Procs :
        /\ Done(p, "hold_seats")
        /\ Returned(p)
        /\ Requested(p) # {}
        /\ SeatsOf(snap.seat_holds, call[p].token, call[p].show) \ Requested(p) # {}

\* ------------------------------------------------------------------- C8
\* C8: the seats named by the ValueError of hold_seats are exactly the
\* requested seats that were reserved, or held (not expired) by another
\* token, at call time (stated for a list that names no seat twice and a
\* ledger with no expired hold row left on a requested seat).
C8_ErrorNamesAllConflicts ==
    \A p \in Procs :
        ( /\ Done(p, "hold_seats") /\ Raised(p) /\ NoRepeat(p)
          /\ \A h \in snap.seat_holds :
                (OfShow(h, call[p].show) /\ h.seat \in Requested(p))
                    => h.expires_at >= snap.clock ) =>
            call[p].result.seats = Requested(p) \cap OccupiedAtCall(p)

\* ------------------------------------------------------------------- C9
\* C9 as stated: get_occupied_seats returns the seats of the reservation rows
\* of the show and of the hold rows of the show whose expires_at is in the
\* future (later than the time read) and whose token is not exclude_token.
C9_OccupiedStrictlyFuture ==
    \A p \in Procs :
        Done(p, "get_occupied_seats") =>
            call[p].result.seats =
                {r.seat : r \in {x \in seat_reservas : x.movie_id = call[p].show.movie_id
                                     /\ x.fecha = call[p].show.fecha
                                     /\ x.hora = call[p].show.hora
                                     /\ x.sala = call[p].show.sala}}
                \cup
                {h.seat : h \in {x \in seat_holds : x.movie_id = call[p].show.movie_id
                                     /\ x.fecha = call[p].show.fecha
                                     /\ x.hora = call[p].show.hora
                                     /\ x.sala = call[p].show.sala
                                     /\ x.expires_at > call[p].now
                                     /\ x.token # call[p].exclude_token}}

\* C9 amended: the same with a hold row counted until its expires_at has
\* passed, that is while expires_at >= the time read.
C9_OccupiedNotPast ==
    \A p \in Procs :
        Done(p, "get_occupied_seats") =>
            call[p].result.seats =
                {r.seat : r \in {x \in seat_reservas : x.movie_id = call[p].show.movie_id
                                     /\ x.fecha = call[p].show.fecha
                                     /\ x.hora = call[p].show.hora
                                     /\ x.sala = call[p].show.sala}}
                \cup
                {h.seat : h \in {x \in seat_holds : x.movie_id = call[p].show.movie_id
                                     /\ x.fecha = call[p].show.fecha
                                     /\ x.hora = call[p].show.hora
                                     /\ x.sala = call[p].show.sala
                                     /\ ~(x.expires_at < call[p].now)
                                     /\ x.token # call[p].exclude_token}}

\* a query that counts a hold expiring at the time read and leaves out the
\* excluded token's hold of a seat that is reserved in another show
C9_Witness ==
    \E p \in Procs :
        /\ Done(p, "get_occupied_seats")
        /\ \E h \in seat_holds :
              /\ OfShow(h, call[p].show)
              /\ h.expires_at = call[p].now
              /\ h.token # call[p].exclude_token
              /\ h.seat \in call[p].result.seats
              /\ ~\E r \in seat_reservas : SameSeat(r, h)
        /\ \E h \in seat_holds :
              /\ OfShow(h, call[p].show)
              /\ h.expires_at >= call[p].now
              /\ h.token = call[p].exclude_token
              /\ h.seat \notin call[p].result.seats
              /\ \E r \in seat_reservas :
                    ~OfShow(r, call[p].show) /\ r.seat = h.seat

\* ------------------------------------------------------------------ C10
\* C10: right after hold_seats(A, show, seats) returns (the clock not yet past
\* the expiry it wrote), every requested seat is in
\* get_occupied_seats(show, exclude_token=B) for every other token B and none
\* is in get_occupied_seats(show, exclude_token=A).
C10_HoldThenOccupied ==
    \A p \in Procs :
        (Done(p, "hold_seats") /\ Returned(p) /\ clock <= Exp(call[p])) =>
            \A s \in Requested(p) :
                /\ \A B \in Tokens \ {call[p].token} :
                      s \in GetOccupiedSeats(seat_holds, seat_reservas,
                                             call[p].show, clock, B)
                /\ s \notin GetOccupiedSeats(seat_holds, seat_reservas,
                                             call[p].show, clock, call[p].token)

\* a successful call for two seats, queried while another token holds a seat
\* of the other show
C10_Witness ==
    \E p \in Procs :
        /\ Done(p, "hold_seats")
        /\ Returned(p)
        /\ clock <= Exp(call[p])
        /\ Cardinality(Requested(p)) = 2
        /\ \E h \in seat_holds : h.token # call[p].token

\* ------------------------------------------------------------------ C11
\* C11: when no requested seat is in get_occupied_seats(show,
\* exclude_token=token) at call time, hold_seats returns, also when an expired
\* hold row of another token is still in seat_holds for a requested seat
\* (stated for a list that names no seat twice).
C11_ExpiredHoldIsFree ==
    \A p \in Procs :
        ( /\ Done(p, "hold_seats") /\ NoRepeat(p)
          /\ Requested(p) \cap OccupiedAtCall(p) = {} )
        => Returned(p)

\* ------------------------------------------------------------------ C12
\* C12: when confirm_seats returns a non-empty list, the list is the set of
\* seats for which the token had, at the call, a hold row of the show with
\* expires_at >= now; each of them has a reservation row with the email and
\* trx_id given; the token has no hold row of the show left.
C12_ConfirmTurnsHoldsIntoReservas ==
    \A p \in Procs :
        (Done(p, "confirm_seats") /\ Returned(p) /\ call[p].result.seats # {}) =>
            /\ call[p].result.seats =
                   {h.seat : h \in {x \in snap.seat_holds :
                                       /\ x.token = call[p].token
                                       /\ OfShow(x, call[p].show)
                                       /\ x.expires_at >= snap.clock}}
            /\ \A s \in call[p].result.seats :
                  \E r \in seat_reservas :
                      /\ OfShow(r, call[p].show) /\ r.seat = s
                      /\ r.usuario_email = call[p].pay.usuario_email
                      /\ r.trx_id = call[p].pay.trx_id
            /\ ~\E h \in seat_holds :
                  h.token = call[p].token /\ OfShow(h, call[p].show)

\* a confirmation of two seats, on the last second of the hold, that leaves
\* the token's hold of the other show in place
C12_Witness ==
    \E p \in Procs :
        /\ Done(p, "confirm_seats")
        /\ Returned(p)
        /\ Cardinality(call[p].result.seats) = 2
        /\ \E h \in snap.seat_holds :
              /\ h.token = call[p].token /\ OfShow(h, call[p].show)
              /\ h.expires_at = snap.clock
        /\ \E h \in seat_holds :
              h.token = call[p].token /\ ~OfShow(h, call[p].show)

\* ------------------------------------------------------------------ C14
\* C14: confirm_seats called when the token has no hold row of the show with
\* expires_at >= now (never held, expired, released, or consumed by an earlier
\* confirm_seats) returns the empty list without raising and leaves both
\* tables as they were: no reservation row is created, an expired hold is not
\* turned into a reservation.
C14_ConfirmWithoutHoldIsEmpty ==
    \A p \in Procs :
        ( /\ Done(p, "confirm_seats")
          /\ ~\E h \in snap.seat_holds :
                /\ h.token = call[p].token /\ OfShow(h, call[p].show)
                /\ h.expires_at >= snap.clock )
        => /\ Returned(p)
           /\ call[p].result.seats = {}
           /\ seat_reservas = snap.seat_reservas
           /\ seat_holds = snap.seat_holds

\* a confirmation by a token whose hold of the show has expired and is still
\* in the table, after a reservation of the show was made
C14_Witness ==
    \E p \in Procs :
        /\ Done(p, "confirm_seats")
        /\ Returned(p)
        /\ call[p].result.seats = {}
        /\ \E h \in seat_holds :
              /\ h.token = call[p].token /\ OfShow(h, call[p].show)
              /\ h.expires_at < snap.clock
        /\ \E r \in seat_reservas : OfShow(r, call[p].show)

\* ------------------------------------------------------------------ C16
\* C16 as stated: purge_expired_holds deletes every hold row with
\* expires_at <= now (a row with expires_at = now included) and returns the
\* number of rows deleted.
C16_PurgeUpToNow ==
    \A p \in Procs :
        Done(p, "purge_expired_holds") =>
            /\ seat_holds = {h \in snap.seat_holds : ~(h.expires_at <= snap.clock)}
            /\ call[p].result.count = Cardinality(snap.seat_holds \ seat_holds)

\* C16 amended: purge_expired_holds deletes every hold row with
\* expires_at < now, keeps a row with expires_at = now, and returns the
\* number of rows deleted.
C16_PurgeBeforeNow ==
    \A p \in Procs :
        Done(p, "purge_expired_holds") =>
            /\ seat_holds = {h \in snap.seat_holds : ~(h.expires_at < snap.clock)}
            /\ call[p].result.count = Cardinality(snap.seat_holds \ seat_holds)

\* a purge that deleted a row and kept a row expiring at the time it read
C16_Witness ==
    \E p \in Procs :
        /\ Done(p, "purge_expired_holds")
        /\ call[p].result.count >= 1
        /\ \E h \in seat_holds : h.expires_at = call[p].now

\* ------------------------------------------------------------------ C13
\* C13: when an INSERT of confirm_seats hits the unique index, the call raises
\* a ValueError that names that seat, and no reservation row that this call
\* inserted is left.  Stated for two overlapping calls that carry different
\* payment data, so that the rows of the show with the call's email and
\* trx_id that are new since the calls began are the rows this call inserted.
C13_ConfirmAllOrNothing ==
    \A p, q \in Procs :
        ( /\ p # q
          /\ snap.n = 2
          /\ Done(p, "confirm_seats") /\ Raised(p)
          /\ pc[q] # "idle"
          /\ call[q].pay # call[p].pay )
        => /\ \A s \in call[p].result.seats :
                 UniqueViolation(seat_reservas, call[p].show, s)
           /\ ~\E r \in seat_reservas \ snap.seat_reservas :
                 /\ OfShow(r, call[p].show)
                 /\ r.usuario_email = call[p].pay.usuario_email
                 /\ r.trx_id = call[p].pay.trx_id

\* ------------------------------------------------------------------ C15
\* C15: the DELETE of purge_expired_holds, whatever runs concurrently, deletes
\* no hold row whose expires_at is later than the time the call read, and
\* leaves no hold row whose expires_at was earlier than that time.
C15_PurgeSweepsOnlyThePast ==
    [][\A p \in Procs :
          (pc[p] = "pe_delete" /\ pc'[p] = "done") =>
              /\ \A h \in seat_holds \ seat_holds' :
                    ~(h.expires_at > call[p].now)
              /\ \A h \in seat_holds :
                    h.expires_at < call[p].now => h \notin seat_holds'
      ]_vars

\* a purge, overlapping another call, that deleted a row and left a row that
\* expires later than the time it read
C15_Witness ==
    \E p \in Procs :
        /\ Done(p, "purge_expired_holds")
        /\ snap.n >= 2
        /\ call[p].result.count >= 1
        /\ \E h \in seat_holds : h.expires_at > call[p].now

\* ------------------------------------------------------------------ C17
\* C17: when purge_expired_holds, running concurrently with confirm_seats,
\* sweeps a hold that confirm_seats counted as not expired (expires_at >= the
\* time confirm_seats read), and confirm_seats returns that seat, then every
\* seat confirm_seats returns has a reservation row with the email and trx_id
\* of the call and no seat it returns is held by another token.  (When the
\* hold is swept before confirm_seats reads it, confirm_seats returns [] and
\* the statement is about no seat.)
C17_SweptHoldNotTorn ==
    \A p \in Procs :
        ( /\ Done(p, "confirm_seats") /\ Returned(p)
          /\ \E h \in snap.swept :
                /\ h.token = call[p].token /\ OfShow(h, call[p].show)
                /\ h.expires_at >= call[p].now
                /\ h.seat \in call[p].result.seats )
        => \A s \in call[p].result.seats :
              /\ \E r \in seat_reservas :
                    /\ OfShow(r, call[p].show) /\ r.seat = s
                    /\ r.usuario_email = call[p].pay.usuario_email
                    /\ r.trx_id = call[p].pay.trx_id
              /\ ~\E h \in seat_holds :
                    /\ OfShow(h, call[p].show) /\ h.seat = s
                    /\ h.token # call[p].token

\* ------------------------------------------------------------------ C18
\* C18, its "in particular": a seat that is reserved, or held by a token other
\* than exclude_token without expiring, from the start of get_occupied_seats
\* to its return is in the set returned.  Stated for a query that overlaps at
\* most one other call: a seat reserved when the calls began stays reserved; a
\* seat held then by a row that has not expired by the end stays held until
\* the confirm_seats of its token has reserved it.
C18_OccupiedThroughoutIsListed ==
    \A p \in Procs :
        (Done(p, "get_occupied_seats") /\ snap.n <= 2) =>
            \A s \in Seats :
                ( \/ \E r \in snap.seat_reservas :
                        OfShow(r, call[p].show) /\ r.seat = s
                  \/ \E h \in snap.seat_holds :
                        /\ OfShow(h, call[p].show) /\ h.seat = s
                        /\ h.token # call[p].exclude_token
                        /\ h.expires_at >= clock
                        /\ \/ h \in seat_holds
                           \/ \E r \in seat_reservas :
                                 OfShow(r, call[p].show) /\ r.seat = s )
                => s \in call[p].result.seats

\* ------------------------------------------------------------------ C19
\* C19: a reservation row, once in seat_reservas, is there unchanged in every
\* later state (no statement of hold_seats, release_hold, purge_expired_holds
\* or confirm_seats deletes or updates one), and in every state its seat is
\* in get_occupied_seats(show, exclude_token=t) for every token t and for no
\* token.
C19_ReservasPermanent ==
    /\ [][seat_reservas \subseteq seat_reservas']_vars
    /\ [](\A r \in seat_reservas : \A t \in Tokens \cup {NoToken} :
             r.seat \in GetOccupiedSeats(seat_holds, seat_reservas,
                                         [movie_id |-> r.movie_id,
                                          fecha |-> r.fecha, hora |-> r.hora,
                                          sala |-> r.sala],
                                         clock, t))

\* a reserved seat with no hold row left, asked for again and refused, after
\* the clock has moved on
C19_Witness ==
    \E p \in Procs :
        /\ Done(p, "hold_seats")
        /\ Raised(p)
        /\ clock > call[p].now
        /\ \E r \in seat_reservas :
              /\ OfShow(r, call[p].show)
              /\ r.seat \in call[p].result.seats
              /\ ~\E h \in seat_holds : SameSeat(r, h)

\* ------------------------------------------------------------------ C20
\* C20: in every reachable state, whatever the interleaving, no two rows of
\* seat_holds are for the same seat of the same show: a seat is never held by
\* two tokens at once.
C20_HoldsUnique ==
    \A h1, h2 \in seat_holds : SameSeat(h1, h2) => h1 = h2

\* two overlapping hold_seats calls of two tokens for the same seat: one row
\* is in the table and the other call was refused by the index
C20_Witness ==
    \E p, q \in Procs :
        /\ p # q
        /\ snap.n = 2
        /\ Done(p, "hold_seats") /\ Raised(p)
        /\ Done(q, "hold_seats") /\ Returned(q)
        /\ call[p].token # call[q].token
        /\ \E h \in seat_holds :
              /\ h.token = call[q].token
              /\ OfShow(h, call[p].show)
              /\ h.seat \in call[p].result.seats
        /\ seat_reservas = {}

\* ------------------------------------------------------------------ C21
\* C21: a hold row whose expires_at is earlier than the clock, on a seat that
\* was not reserved, does not put its seat in get_occupied_seats(show,
\* exclude_token=x), for any token x and for no token, although no purge has
\* removed the row; and after purge_expired_holds has run no row that had
\* expired when it was called is left.
C21_ExpiredHoldStopsBlocking ==
    /\ \A h \in seat_holds :
          (h.expires_at < clock /\ ~\E r \in seat_reservas : SameSeat(r, h)) =>
              \A x \in Tokens \cup {NoToken} :
                  h.seat \notin GetOccupiedSeats(
                                    seat_holds, seat_reservas,
                                    [movie_id |-> h.movie_id, fecha |-> h.fecha,
                                     hora |-> h.hora, sala |-> h.sala], clock, x)
    /\ \A p \in Procs :
          Done(p, "get_occupied_seats") =>
              \A h \in snap.seat_holds :
                  ( /\ OfShow(h, call[p].show)
                    /\ h.expires_at < snap.clock
                    /\ ~\E r \in snap.seat_reservas : SameSeat(r, h) )
                  => h.seat \notin call[p].result.seats
    /\ \A p \in Procs :
          Done(p, "purge_expired_holds") =>
              ~\E h \in seat_holds : h.expires_at < snap.clock

\* a query, made after the hold of another token has expired and before any
\* purge, that does not list the seat of the row still in the table
C21_Witness ==
    \E p \in Procs :
        /\ Done(p, "get_occupied_seats")
        /\ \E h \in seat_holds :
              /\ OfShow(h, call[p].show)
              /\ h.expires_at < call[p].now
              /\ h.token # call[p].exclude_token
              /\ h.seat \notin call[p].result.seats

\* ------------------------------------------------------------------ C22
\* C22 as stated: hold_seats called with a seat list that is empty after
\* cleaning leaves seat_holds, the token's rows of the show included, as it
\* found it.
C22_EmptyListTouchesNothing ==
    \A p \in Procs :
        (Done(p, "hold_seats") /\ call[p].clean_seats = <<>>) =>
            seat_holds = snap.seat_holds

\* C22 amended: hold_seats called with a seat list that is empty after
\* cleaning is not refused: it returns, having deleted the token's hold rows
\* of the show and nothing else; it inserts no row.
C22_EmptyListClearsHold ==
    \A p \in Procs :
        (Done(p, "hold_seats") /\ call[p].clean_seats = <<>>) =>
            /\ Returned(p)
            /\ seat_holds = {h \in snap.seat_holds :
                                ~(h.token = call[p].token /\ OfShow(h, call[p].show))}
            /\ seat_reservas = snap.seat_reservas

\* a call with nothing but blanks in its list, by a token that held a seat of
\* the show, while another token holds a seat
C22_Witness ==
    \E p \in Procs :
        /\ Done(p, "hold_seats")
        /\ call[p].clean_seats = <<>>
        /\ Returned(p)
        /\ \E h \in snap.seat_holds :
              h.token = call[p].token /\ OfShow(h, call[p].show)
        /\ \E h \in seat_holds : h.token # call[p].token

\* ------------------------------------------------------------------ C23
\* C23: release_hold(token, show) deletes every hold row of the token for the
\* show and no other row, and returns the number of rows it deleted;
\* hold_seats(token, show, ...), whether it returns or raises, deletes and
\* writes only hold rows of the token for the show; both leave seat_reservas
\* as it was.
C23_OnlyOwnRowsOfTheShow ==
    \A p \in Procs :
        /\ Done(p, "release_hold") =>
              /\ seat_holds = {h \in snap.seat_holds :
                                  ~(h.token = call[p].token /\ OfShow(h, call[p].show))}
              /\ call[p].result.count = Cardinality(snap.seat_holds \ seat_holds)
              /\ seat_reservas = snap.seat_reservas
        /\ Done(p, "hold_seats") =>
              /\ \A h \in (snap.seat_holds \ seat_holds) \cup
                            (seat_holds \ snap.seat_holds) :
                    h.token = call[p].token /\ OfShow(h, call[p].show)
              /\ seat_reservas = snap.seat_reservas

\* a release that deleted a row while the token holds a seat of the other
\* show, another token holds a seat and a seat is reserved
C23_Witness ==
    \E p \in Procs :
        /\ Done(p, "release_hold")
        /\ call[p].result.count >= 1
        /\ \E h \in seat_holds :
              h.token = call[p].token /\ ~OfShow(h, call[p].show)
        /\ \E h \in seat_holds : h.token # call[p].token
        /\ seat_reservas # {}

\* ------------------------------------------------------------------ C26
\* C26: when hold_seats raises because a requested seat is reserved or held
\* by another token, the token's hold rows of the show are the rows it had
\* when the call began (stated for a list that names no seat twice).
C26_FailedHoldKeepsPrevious ==
    \A p \in Procs :
        ( /\ Done(p, "hold_seats") /\ Raised(p) /\ NoRepeat(p)
          /\ Requested(p) \cap OccupiedAtCall(p) # {} )
        => {h \in seat_holds : h.token = call[p].token /\ OfShow(h, call[p].show)}
             = {h \in snap.seat_holds :
                   h.token = call[p].token /\ OfShow(h, call[p].show)}

\* ------------------------------------------------------------------ C27
\* C27: whatever purge_expired_holds, hold_seats and the clock do between the
\* statements of confirm_seats, each INSERT of confirm_seats into
\* seat_reservas finds, in the state it runs in, a hold row of the call's
\* token for that seat of the show that had not expired at the time the call
\* read.
C27_ReservedOnlyFromOwnHold ==
    [][\A p \in Procs :
          pc[p] = "cs_insert" =>
              \A r \in seat_reservas' \ seat_reservas :
                  \E h \in seat_holds :
                      /\ SameSeat(h, r)
                      /\ h.token = call[p].token
                      /\ h.expires_at >= call[p].now
      ]_vars

\* ------------------------------------------------------------------ C28
\* C28: hold_seats given a list that, once cleaned, names a seat more than
\* once, none of the seats being reserved or the subject of any hold row of
\* another token, returns, and the token then has a hold row for each
\* distinct seat of the list and for no other seat of the show.
C28_RepeatedSeatHeldOnce ==
    \A p \in Procs :
        ( /\ Done(p, "hold_seats") /\ ~NoRepeat(p)
          /\ Requested(p) \cap OccupiedAtCall(p) = {}
          /\ ~\E h \in snap.seat_holds :
                /\ OfShow(h, call[p].show) /\ h.seat \in Requested(p)
                /\ h.token # call[p].token )
        => /\ Returned(p)
           /\ SeatsOf(seat_holds, call[p].token, call[p].show) = Requested(p)

\* ------------------------------------------------------------------ C24
\* C24: with the password reset functions called one after the other:
\* create_password_reset_token leaves the new row (its user, its token,
\* unused) as the only row of the user; validate_password_reset_token(t)
\* returns the user_id of t's row when that row is unused and expires later
\* than the time read, and None otherwise; between calls no user has two
\* rows; and from the state in which use_password_reset_token(t) has run on,
\* t has no unused row, so that validate_password_reset_token(t) returns None
\* in every later state.
C24_ResetTokenSingleUse ==
    /\ [](\A p \in Procs :
            /\ Done(p, "create_password_reset_token") =>
                  /\ call[p].result.token = call[p].token
                  /\ {r \in password_reset_tokens : r.user_id = call[p].user_id}
                        = {[user_id |-> call[p].user_id, token |-> call[p].token,
                            expires_at |-> snap.clock + ResetTtl, used |-> 0]}
            /\ Done(p, "validate_password_reset_token") =>
                  /\ \A r \in password_reset_tokens :
                        ( /\ r.token = call[p].token /\ r.used = 0
                          /\ r.expires_at > snap.clock )
                        => call[p].result.user_id = r.user_id
                  /\ (~\E r \in password_reset_tokens :
                         /\ r.token = call[p].token /\ r.used = 0
                         /\ r.expires_at > snap.clock)
                        => call[p].result.user_id = NoUser
            /\ pc[p] \in {"idle", "done"} =>
                  \A r1, r2 \in password_reset_tokens :
                      r1.user_id = r2.user_id => r1 = r2)
    /\ \A t \in ResetTokens \cup {UnknownToken} :
          []((\E p \in Procs :
                 Done(p, "use_password_reset_token") /\ call[p].token = t)
             => [](/\ ~\E r \in password_reset_tokens : r.token = t /\ r.used = 0
                   /\ \A p \in Procs :
                         ( /\ Done(p, "validate_password_reset_token")
                           /\ call[p].token = t )
                         => call[p].result.user_id = NoUser))

\* a token that was created and used is validated before it expires, and the
\* answer is None
C24_Witness ==
    \E p \in Procs :
        /\ Done(p, "validate_password_reset_token")
        /\ call[p].result.user_id = NoUser
        /\ \E r \in password_reset_tokens :
              /\ r.token = call[p].token
              /\ r.used = 1
              /\ r.expires_at > call[p].now

\* ------------------------------------------------------------------ C25
\* C25: use_password_reset_token(t) returns True exactly when, at the call,
\* t had a row with used = 0, and that row then has used = 1; it returns
\* False when t had no row or a row with used = 1.
C25_UseReturnsWhetherItMarked ==
    \A p \in Procs :
        Done(p, "use_password_reset_token") =>
            /\ call[p].result.ok =
                  (\E r \in snap.password_reset_tokens :
                       r.token = call[p].token /\ r.used = 0)
            /\ \A r \in snap.password_reset_tokens :
                  (r.token = call[p].token /\ r.used = 0) =>
                      [r EXCEPT !.used = 1] \in password_reset_tokens

\* ------------------------------------------------------------------ C29
\* C29: when a POST to /reserva-asientos has been answered (no other request
\* of any browser being on its way), the seats listed in the browser's
\* session are the seats for which the session's hold_token has hold rows of
\* the selected show.
C29_SessionSeatsAreHeld ==
    \A p \in Procs :
        ( /\ Done(p, "reserva_asientos")
          /\ \A q \in Others(p) : ~Running(q) )
        => SeqRange(session[call[p].browser].seats)
             = {h.seat : h \in {x \in seat_holds :
                                   /\ x.token = session[call[p].browser].hold_token
                                   /\ OfShow(x, call[p].show)}}

\* ------------------------------------------------------------------ C30
\* C30: in every state, a transaction whose estado is APROBADO has
\* reservation rows that carry its id, and no reservation row carries the id
\* of a transaction whose estado is RECHAZADA.
C30_PaymentAndLedgerAgree ==
    \A k \in 1..Len(transacciones) :
        /\ transacciones[k].estado = "APROBADO" =>
              \E r \in seat_reservas : r.trx_id = k
        /\ transacciones[k].estado = "RECHAZADA" =>
              ~\E r \in seat_reservas : r.trx_id = k

====
